---- MODULE Spec2Model ----
(***************************************************************************)
(* FLPerformance: the benchmark engine (BenchmarkEngine in                 *)
(* src/src/server/logger.js) and the storage it writes to (Storage in      *)
(* src/unnamed/part_007).                                                  *)
(*                                                                         *)
(* Two specifications share the module:                                    *)
(*   Spec          the run coordinator, runBenchmark/runTask, one action   *)
(*                 per synchronous piece of code between two awaits;       *)
(*   SpecScenario  the scenario runner, runScenario/runSingleInference,    *)
(*                 one action per step of an iteration.                    *)
(* JavaScript runs each piece between two awaits without interruption, so  *)
(* the other tasks, the HTTP routes and the timers interleave only at the  *)
(* awaits: that is where the actions are cut.                              *)
(***************************************************************************)
EXTENDS Integers, Sequences, FiniteSets, TLC

(***************************************************************************)
(* Bounds of the model.                                                    *)
(***************************************************************************)
MaxIter == 3        \* config.iterations ranges over 1..MaxIter
MaxLatency == 2     \* an iteration's latency (ms) ranges over 1..MaxLatency
MaxDelay == 1       \* a ttft or an inter-token delay (ms) ranges over 0..MaxDelay
MaxTokens == 2      \* tokens of one response range over 0..MaxTokens
MaxRuns == 1        \* runs that may be submitted (Spec)
MaxConcurrentRuns == 2   \* runs that may be submitted (SpecRuns)
MaxConcurrentTasks == 1  \* models, and scenarios, of a run of SpecRuns
MaxModels == 2      \* a run's modelIds list holds 1..MaxModels ids
MaxScenarios == 2   \* a suite holds 0..MaxScenarios scenarios
MaxTime == 1        \* Date.now() ranges over 0..MaxTime
MaxFaults == 1      \* storage writes that may throw in one behaviour
MaxSpawns == 2      \* child processes that may be spawned
MaxCalls == 3       \* startService and stopService calls that may be made
MaxAppends == 1002  \* log entries that may be appended (SpecLog)
MaxSamples == 100   \* array lengths the percentile index is compared over
MaxSubmitted == 2   \* iterations a submitted config may ask for (SpecSubmit)

(***************************************************************************)
(* null and numbers.  The aggregates are fractions in JavaScript; here a   *)
(* fraction is a record [n, d] in lowest terms, and null is NullRat.       *)
(* An integer field that may be null holds Null.                           *)
(***************************************************************************)
Null == -1

NullRat == [n |-> 0, d |-> 0]

\* A field the object does not have, and what arithmetic on it gives.
Undefined == Null

NaN == -99

NaNRat == [n |-> 0, d |-> -1]

RECURSIVE GCD(_, _)
GCD(a, b) == IF b = 0 THEN a ELSE GCD(b, a % b)

Rat(n, d) == LET g == GCD(n, d) IN [n |-> n \div g, d |-> d \div g]

Zero == [n |-> 0, d |-> 1]

Hundred == [n |-> 100, d |-> 1]

RECURSIVE Sum(_)
Sum(s) == IF s = <<>> THEN 0 ELSE Head(s) + Sum(Tail(s))

RECURSIVE Insert(_, _)
Insert(x, s) ==
    IF s = <<>> THEN <<x>>
    ELSE IF x <= Head(s) THEN <<x>> \o s
    ELSE <<Head(s)>> \o Insert(x, Tail(s))

\* [...a].sort((a, b) => a - b)
RECURSIVE SortAsc(_)
SortAsc(s) == IF s = <<>> THEN <<>> ELSE Insert(Head(s), SortAsc(Tail(s)))

VARIABLES
    \* ---- the scenario runner (SpecScenario) ----
    config,       \* the run config: [iterations, streaming]
    spc,          \* where runScenario is: "loop", "infer", "after", "done"
    i,            \* the loop counter of runScenario (iterations finished)
    metrics,      \* the metrics object of the iteration in progress
    results,      \* the results object of runScenario
    timers,       \* iterations (1-based) whose setTimeout is still pending
    outcome,      \* history: how each iteration's inference call really ended
    aggregated,   \* the aggregates runScenario returns, NoAggregate before
    modelId,      \* the descriptor id runScenario was called with
    modelInfo,    \* what orchestrator.getLoadedModelInfo(modelId) returned
    requests,     \* history: the `model` field of every request sent
    deltas,       \* history: non-empty content deltas received in this iteration
    \* ---- the run coordinator (Spec) ----
    runningBenchmarks,  \* BenchmarkEngine.runningBenchmarks: runId -> entry
    benchmark_runs,     \* Storage: runId -> run record
    benchmark_results,  \* Storage: the result rows, in insertion order
    logs,               \* Storage: the log entries, in insertion order
    models,             \* Storage: the ids of the registered model descriptors
    useJson,            \* Storage.useJson: file-backed instead of SQLite
    loaded,             \* the orchestrator's cache: descriptor ids with LoadedModelInfo
    pc,                 \* per run: the await runTask is suspended at
    modelIds,           \* per run: the modelIds argument
    nScenarios,         \* per run: suite.scenarios.length
    modelIdx,           \* per run: position of the for-of loop over modelIds
    scenIdx,            \* per run: position of the for-of loop over suite.scenarios
    completedTasks,     \* per run: completedTasks
    progressCb,         \* per run: the last progress given to progressCallback
    now,                \* Date.now()
    faults,             \* storage writes that have thrown so far
    hist,               \* per run, history: what happened to each model and pair
    \* ---- the service orchestrator (SpecOrchestrator) ----
    services,     \* FoundryLocalOrchestrator.services: modelId -> serviceInfo
    portCounter,  \* FoundryLocalOrchestrator.portCounter
    procs,        \* the child processes spawned so far
    modelStatus,  \* Storage: the status column of each model descriptor
    calls,        \* the startService and stopService calls made so far
    \* ---- the log (SpecLog) ----
    appended      \* history: every log entry as it was appended

svars == <<config, spc, i, metrics, results, timers, outcome, aggregated,
           modelId, modelInfo, requests, deltas>>

cvars == <<runningBenchmarks, benchmark_runs, benchmark_results, logs, models, useJson,
           loaded, pc, modelIds, nScenarios, modelIdx, scenIdx, completedTasks,
           progressCb, now, faults, hist>>

ovars == <<services, portCounter, procs, modelStatus, calls>>

lvars == <<appended>>

vars == <<config, spc, i, metrics, results, timers, outcome, aggregated,
          modelId, modelInfo, requests, deltas,
          services, portCounter, procs, modelStatus, calls, appended,
          runningBenchmarks, benchmark_runs, benchmark_results, logs, models, useJson,
          loaded, pc, modelIds, nScenarios, modelIdx, scenIdx, completedTasks,
          progressCb, now, faults, hist>>

(***************************************************************************)
(* The scenario runner.                                                    *)
(***************************************************************************)
Configs == [iterations : 1..MaxIter, streaming : BOOLEAN]

\* The config of a request body, passed on as it is (config || {}): iterations
\* may be missing.  The form of the web client starts with iterations: 5.
SubmittedConfigs == [iterations : (1..MaxSubmitted) \cup {Undefined}, streaming : BOOLEAN]

DefaultIterations == 5

\* i < config.iterations; false when iterations is undefined
loopGoesOn(k, cfg) == cfg.iterations # Undefined /\ k < cfg.iterations

\* runSingleInference: const metrics = {...}
NewMetrics ==
    [ttft |-> Null, tokens |-> 0, interTokenDelays |-> <<>>,
     error |-> FALSE, timeout |-> FALSE, latency |-> 0]

\* runScenario: const results = {...}
NewResults ==
    [iterations |-> <<>>, latencies |-> <<>>, ttfts |-> <<>>, tokenCounts |-> <<>>,
     allInterTokenDelays |-> <<>>, errors |-> 0, timeouts |-> 0]

NoAggregate == [total_iterations |-> 0]

\* A model name taken from the alias.
modelNameFromAlias(info) == info.alias

\* runSingleInference: const modelName = modelInfo.id
modelName(info) == info.id

\* An index rounded down instead of up.
percentileIndexFloor(length, percentile) == (percentile * length) \div 100

\* calculatePercentile(sortedArray, percentile)
\* Math.max(0, Math.ceil((percentile / 100) * length) - 1), 0-based
percentileIndex(length, percentile) ==
    LET index == ((percentile * length + 99) \div 100) - 1
    IN  IF index > 0 THEN index ELSE 0

\* A percentile counted from the top of the array.
calculatePercentileFromTop(sortedArray, percentile) ==
    IF Len(sortedArray) = 0 THEN 0
    ELSE sortedArray[Len(sortedArray) - percentileIndex(Len(sortedArray), percentile)]

calculatePercentile(sortedArray, percentile) ==
    IF Len(sortedArray) = 0 THEN 0
    ELSE sortedArray[percentileIndex(Len(sortedArray), percentile) + 1]

\* A runner that counted the iterations it kept a latency for.
successfulIterationsByLatencies(res, cfg) == Len(res.latencies)

\* successful_iterations: config.iterations - results.errors - results.timeouts
successfulIterations(res, cfg) == cfg.iterations - res.errors - res.timeouts

\* runScenario: "Calculate aggregate metrics" (cpu/ram/gpu averages left out)
Aggregate(res, cfg) ==
    LET sortedLatencies == SortAsc(res.latencies)
        sortedTtfts == SortAsc(res.ttfts)
        totalTokens == Sum(res.tokenCounts)
        totalTimeMs == Sum(res.latencies)
        tps == IF totalTimeMs > 0 THEN Rat(totalTokens * 1000, totalTimeMs) ELSE Zero
        nDelays == Len(res.allInterTokenDelays)
        tpot == IF nDelays > 0 THEN Rat(Sum(res.allInterTokenDelays), nDelays) ELSE NullRat
        gen_tps == IF tpot # NullRat /\ tpot.n > 0 THEN Rat(1000 * tpot.d, tpot.n) ELSE NullRat
    IN  [tps |-> tps,
         ttft |-> IF Len(sortedTtfts) > 0
                  THEN sortedTtfts[(Len(sortedTtfts) \div 2) + 1] ELSE Null,
         tpot |-> tpot,
         gen_tps |-> gen_tps,
         latency_p50 |-> calculatePercentile(sortedLatencies, 50),
         latency_p95 |-> calculatePercentile(sortedLatencies, 95),
         latency_p99 |-> calculatePercentile(sortedLatencies, 99),
         error_rate |-> IF cfg.iterations = Undefined THEN NaNRat
                        ELSE Rat(res.errors * 100, cfg.iterations),
         timeout_rate |-> IF cfg.iterations = Undefined THEN NaNRat
                          ELSE Rat(res.timeouts * 100, cfg.iterations),
         total_tokens |-> totalTokens,
         total_iterations |-> cfg.iterations,
         successful_iterations |-> IF cfg.iterations = Undefined THEN NaN
                                   ELSE successfulIterations(res, cfg)]

(***************************************************************************)
(* The run coordinator: state.                                             *)
(***************************************************************************)
RunIds == 1..MaxConcurrentRuns

\* The registered model descriptors (ids).
Models == {"A", "B"}

\* The modelIds a run may be given: the route refuses an empty list only.
ModelLists == UNION {[1..n -> Models] : n \in 1..MaxModels}

\* No entry in runningBenchmarks, no row in benchmark_runs.
NoEntry == [status |-> "none", progress |-> 0, error |-> FALSE]

NoRun == [status |-> "none", started_at |-> Null, completed_at |-> Null]

NoHist == [skipped |-> {}, started |-> {}, returned |-> {}, raised |-> {},
           faulted |-> FALSE, probes |-> 0, reloads |-> 0]

InitCoordinator ==
    /\ runningBenchmarks = [r \in RunIds |-> NoEntry]
    /\ benchmark_runs = [r \in RunIds |-> NoRun]
    /\ benchmark_results = <<>>
    /\ logs = <<>>
    /\ models = Models
    /\ loaded = {}
    /\ pc = [r \in RunIds |-> "idle"]
    /\ modelIds = [r \in RunIds |-> <<>>]
    /\ nScenarios = [r \in RunIds |-> 0]
    /\ modelIdx = [r \in RunIds |-> 0]
    /\ scenIdx = [r \in RunIds |-> 0]
    /\ completedTasks = [r \in RunIds |-> 0]
    /\ progressCb = [r \in RunIds |-> Null]
    /\ now = 0
    /\ faults = 0
    /\ hist = [r \in RunIds |-> NoHist]

(***************************************************************************)
(* Storage (src/unnamed/part_007).  A write that throws leaves the SQLite  *)
(* table as it was; with JSON storage the object in memory, which is what  *)
(* every read returns, is changed before saveJsonData throws.              *)
(***************************************************************************)
\* Storage.saveBenchmarkRun
saveBenchmarkRun(runs, id, run) == [runs EXCEPT ![id] = run]

\* Storage.updateBenchmarkRun: no row, no update
updateBenchmarkRun(runs, id, status, completed_at) ==
    IF runs[id].status = "none" THEN runs
    ELSE [runs EXCEPT ![id].status = status, ![id].completed_at = completed_at]

\* The columns of benchmark_results bound with `result.x || null`.
RatColumns == {"tps", "tpot", "gen_tps", "error_rate", "timeout_rate"}

IntColumns == {"ttft", "latency_p50", "latency_p95", "latency_p99"}

\* The fields of a result record the table has no column for.
NoColumn == {"total_tokens", "total_iterations", "successful_iterations"}

\* x || null: 0 and null give null.
orNull(x) == IF x = 0 THEN Null ELSE x

orNullRat(x) == IF x.n = 0 THEN NullRat ELSE x

\* The row the INSERT of saveBenchmarkResult writes.
sqlRow(result) ==
    [f \in DOMAIN result \ NoColumn |->
        IF f \in RatColumns THEN orNullRat(result[f])
        ELSE IF f \in IntColumns THEN orNull(result[f])
        ELSE result[f]]

\* Storage.saveBenchmarkResult: the record as it is (JSON) or its row (SQLite)
saveBenchmarkResult(rows, result) ==
    Append(rows, IF useJson THEN result ELSE sqlRow(result))

\* Storage.getBenchmarkResults
getBenchmarkResults(rows, runId) == SelectSeq(rows, LAMBDA row : row.run_id = runId)

LogCap == 1000

\* Storage.saveLog: the entry pushed, with id: this.data.logs.length + 1
logEntry(entries, entityType, entityId, level, message) ==
    [id |-> Len(entries) + 1, entity_type |-> entityType,
     entity_id |-> entityId, level |-> level, message |-> message]

\* A log that keeps its first LogCap entries.
saveLogKeepingOldest(entries, entityType, entityId, level, message) ==
    LET all == Append(entries, logEntry(entries, entityType, entityId, level, message))
    IN  IF useJson /\ Len(all) > LogCap THEN SubSeq(all, 1, LogCap) ELSE all

\* Storage.saveLog: the id, and with JSON storage the last LogCap entries
saveLog(entries, entityType, entityId, level, message) ==
    LET all == Append(entries, logEntry(entries, entityType, entityId, level, message))
    IN  IF useJson /\ Len(all) > LogCap
        THEN SubSeq(all, Len(all) - LogCap + 1, Len(all))
        ELSE all

\* What a write leaves behind: `after` when it returned, and also when it threw
\* under JSON storage.
Written(ok, before, after) == IF ok \/ useJson THEN after ELSE before

(***************************************************************************)
(* The orchestrator the engine calls (loadModel, unloadModel,              *)
(* getLoadedModelInfo, checkModelHealth): its cache.                       *)
(***************************************************************************)
getLoadedModelInfo(id) == id \in loaded

loadModel(cache, id) == cache \cup {id}

unloadModel(cache, id) == cache \ {id}

(***************************************************************************)
(* The service orchestrator (src/src/server/orchestrator.js): one child    *)
(* process per model, tracked in the services map.                         *)
(***************************************************************************)
basePort == 5000

ProcIds == 1..MaxSpawns

CallIds == 1..MaxCalls

\* services.get(modelId) is undefined
NoService == [proc |-> 0, port |-> 0]

\* A process id not spawned yet.  killed is ChildProcess.killed: a signal was
\* sent to the process; ready: the endpoint answers client.models.list().
NoProc == [model |-> "", state |-> "none", killed |-> FALSE, ready |-> FALSE]

\* A call not made yet.  existing: startService returned the tracked entry;
\* ready: the service it returned was answering when it returned.
NoCall == [op |-> "none", model |-> "", pc |-> "idle", proc |-> 0, port |-> 0,
           existing |-> FALSE, ready |-> FALSE]

InitOrchestrator ==
    /\ services = [m \in Models |-> NoService]
    /\ portCounter = 0
    /\ procs = [p \in ProcIds |-> NoProc]
    /\ modelStatus = [m \in Models |-> "stopped"]
    /\ calls = [c \in CallIds |-> NoCall]

\* Storage.updateModelStatus
updateModelStatus(st, id, new) == [st EXCEPT ![id] = new]

\* startService: this.services.has(modelId) && existing.process &&
\* !existing.process.killed
AlreadyRunning(m) == services[m].proc # 0 /\ ~procs[services[m].proc].killed

\* What the cache holds for a loaded descriptor: the backend's canonical id,
\* distinct from the descriptor's alias and from its model_id.
LoadedModelInfo(id) == [id |-> <<"id", id>>, alias |-> <<"alias", id>>]

\* Before getLoadedModelInfo is called.
NoModelInfo == [id |-> <<"id", "">>, alias |-> <<"alias", "">>]

\* Storage.getModel: the descriptor registered under id.
Descriptor(id) == [id |-> id, alias |-> <<"alias", id>>, model_id |-> <<"model_id", id>>]

(***************************************************************************)
(* The run coordinator: runBenchmark and its runTask.                      *)
(***************************************************************************)
Model(r) == modelIds[r][modelIdx[r]]

totalTasks(r) == Len(modelIds[r]) * nScenarios[r]

\* A progress computed from the tasks that remain.
ProgressOfRemaining(completed, total) ==
    IF total > 0 THEN (200 * (total - completed) + total) \div (2 * total) ELSE 0

\* updateProgress: Math.round((completedTasks / totalTasks) * 100)
Progress(completed, total) ==
    IF total > 0 THEN (200 * completed + total) \div (2 * total) ELSE 0

RunningEntry(progress) == [status |-> "running", progress |-> progress, error |-> FALSE]

CompletedEntry == [status |-> "completed", progress |-> 100, error |-> FALSE]

\* A failed entry that kept the progress reached so far.
FailedEntryKeepingProgress(old) == [status |-> "failed", progress |-> old.progress, error |-> TRUE]

FailedEntry(old) == [status |-> "failed", progress |-> 0, error |-> TRUE]

\* How many of these writes threw.
Thrown(oks) == Cardinality({k \in DOMAIN oks : ~oks[k]})

\* A catch block that marks the run failed and lets the loop go on.
CatchAndGoOn(r, runs, registry, okUpdate) ==
    /\ benchmark_runs' = Written(okUpdate, runs, updateBenchmarkRun(runs, r, "failed", now))
    /\ runningBenchmarks' =
         IF okUpdate THEN [registry EXCEPT ![r] = FailedEntry(registry[r])] ELSE registry
    /\ pc' = [pc EXCEPT ![r] = "model"]

\* runTask's catch block, reached with the runs table and the registry as the
\* throwing piece of code left them: updateBenchmarkRun(failed), then the
\* registry entry, then the rethrow.  When updateBenchmarkRun throws too, the
\* registry is not written.
Catch(r, runs, registry, okUpdate) ==
    /\ benchmark_runs' = Written(okUpdate, runs, updateBenchmarkRun(runs, r, "failed", now))
    /\ runningBenchmarks' =
         IF okUpdate THEN [registry EXCEPT ![r] = FailedEntry(registry[r])] ELSE registry
    /\ pc' = [pc EXCEPT ![r] = "failed"]

\* runBenchmark up to runTask's first await (getHardwareInfo): the registry
\* entry.  With returnImmediately the caller gets the runId now, without it the
\* caller awaits the same task.
StartRun(r, ms, n) ==
    /\ pc[r] = "idle"
    /\ \A q \in RunIds : q < r => pc[q] # "idle"
    /\ runningBenchmarks' = [runningBenchmarks EXCEPT ![r] = RunningEntry(0)]
    /\ modelIds' = [modelIds EXCEPT ![r] = ms]
    /\ nScenarios' = [nScenarios EXCEPT ![r] = n]
    /\ pc' = [pc EXCEPT ![r] = "hw"]
    /\ UNCHANGED <<benchmark_runs, benchmark_results, logs, models, useJson, loaded,
                   modelIdx, scenIdx, completedTasks, progressCb, now, faults, hist>>
    /\ UNCHANGED <<svars, ovars, lvars>>

\* getHardwareInfo returned: the run record is saved and the loop over
\* modelIds begins.
SaveRun(r) ==
    /\ pc[r] = "hw"
    /\ \E ok, okUpdate \in BOOLEAN :
         LET run == [status |-> "running", started_at |-> now, completed_at |-> Null]
             runs == Written(ok, benchmark_runs, saveBenchmarkRun(benchmark_runs, r, run))
             oks == IF ok THEN <<ok>> ELSE <<ok, okUpdate>>
         IN  /\ faults + Thrown(oks) <= MaxFaults
             /\ faults' = faults + Thrown(oks)
             /\ hist' = [hist EXCEPT ![r].faulted = @ \/ ~ok]
             /\ IF ok
                THEN /\ benchmark_runs' = runs
                     /\ pc' = [pc EXCEPT ![r] = "model"]
                     /\ UNCHANGED runningBenchmarks
                ELSE Catch(r, runs, runningBenchmarks, okUpdate)
    /\ modelIdx' = [modelIdx EXCEPT ![r] = 1]
    /\ completedTasks' = [completedTasks EXCEPT ![r] = 0]
    /\ UNCHANGED <<benchmark_results, logs, models, useJson, loaded, modelIds,
                   nScenarios, scenIdx, progressCb, now>>
    /\ UNCHANGED <<svars, ovars, lvars>>

\* A model that is given up, logged, and benchmarked all the same.
SkipModelWithoutContinue(r, message) ==
    \E ok, okUpdate \in BOOLEAN :
      LET entries == Written(ok, logs,
                       saveLog(logs, "benchmark", r, "error",
                               [kind |-> message, model |-> Model(r), scenario |-> 0]))
          oks == IF ok THEN <<ok>> ELSE <<ok, okUpdate>>
      IN  /\ faults + Thrown(oks) <= MaxFaults
          /\ faults' = faults + Thrown(oks)
          /\ logs' = entries
          /\ hist' = [hist EXCEPT ![r].skipped = @ \cup {modelIdx[r]},
                                  ![r].faulted = @ \/ ~ok]
          /\ IF ok
             THEN /\ pc' = [pc EXCEPT ![r] = "scen"]
                  /\ UNCHANGED <<benchmark_runs, runningBenchmarks, modelIdx>>
             ELSE /\ Catch(r, benchmark_runs, runningBenchmarks, okUpdate)
                  /\ UNCHANGED modelIdx

\* A model is given up: storage.saveLog(benchmark, runId, error, ...), then
\* `continue` (or `return null` and `continue`).
SkipModel(r, message) ==
    \E ok, okUpdate \in BOOLEAN :
      LET entries == Written(ok, logs,
                       saveLog(logs, "benchmark", r, "error",
                               [kind |-> message, model |-> Model(r), scenario |-> 0]))
          oks == IF ok THEN <<ok>> ELSE <<ok, okUpdate>>
      IN  /\ faults + Thrown(oks) <= MaxFaults
          /\ faults' = faults + Thrown(oks)
          /\ logs' = entries
          /\ hist' = [hist EXCEPT ![r].skipped = @ \cup {modelIdx[r]},
                                  ![r].faulted = @ \/ ~ok]
          /\ IF ok
             THEN /\ pc' = [pc EXCEPT ![r] = "model"]
                  /\ modelIdx' = [modelIdx EXCEPT ![r] = @ + 1]
                  /\ UNCHANGED <<benchmark_runs, runningBenchmarks>>
             ELSE /\ Catch(r, benchmark_runs, runningBenchmarks, okUpdate)
                  /\ UNCHANGED modelIdx

\* for (const modelId of modelIds): storage.getModel(modelId) finds nothing.
ModelMissing(r) ==
    /\ pc[r] = "model"
    /\ modelIdx[r] <= Len(modelIds[r])
    /\ Model(r) \notin models
    /\ SkipModel(r, "not found in storage")
    /\ UNCHANGED <<benchmark_results, models, useJson, loaded, modelIds, nScenarios,
                   scenIdx, completedTasks, progressCb, now>>
    /\ UNCHANGED <<svars, ovars, lvars>>

\* ensureModelReady: the model is in the cache, so the health probe is sent;
\* otherwise loadModel is called first.
ModelFound(r) ==
    /\ pc[r] = "model"
    /\ modelIdx[r] <= Len(modelIds[r])
    /\ Model(r) \in models
    /\ pc' = [pc EXCEPT ![r] = IF getLoadedModelInfo(Model(r)) THEN "health" ELSE "load"]
    /\ hist' = [hist EXCEPT ![r].probes = IF getLoadedModelInfo(Model(r)) THEN 1 ELSE 0,
                            ![r].reloads = 0]
    /\ UNCHANGED <<runningBenchmarks, benchmark_runs, benchmark_results, logs, models,
                   useJson, loaded, modelIds, nScenarios, modelIdx, scenIdx,
                   completedTasks, progressCb, now, faults>>
    /\ UNCHANGED <<svars, ovars, lvars>>

\* ensureModelReady: orchestrator.loadModel returned or threw.
LoadReturns(r) ==
    /\ pc[r] = "load"
    /\ \E loadOk \in BOOLEAN :
         IF loadOk
         THEN /\ loaded' = loadModel(loaded, Model(r))
              /\ pc' = [pc EXCEPT ![r] = "health"]
              /\ hist' = [hist EXCEPT ![r].probes = @ + 1]
              /\ UNCHANGED <<runningBenchmarks, benchmark_runs, logs, modelIdx, faults>>
         ELSE /\ SkipModel(r, "auto-load failed")
              /\ UNCHANGED loaded
    /\ UNCHANGED <<benchmark_results, models, useJson, modelIds, nScenarios, scenIdx,
                   completedTasks, progressCb, now>>
    /\ UNCHANGED <<svars, ovars, lvars>>

\* ensureModelReady returns modelInfo: the loop over suite.scenarios begins.
ModelReady(r) ==
    /\ pc' = [pc EXCEPT ![r] = "scen"]
    /\ scenIdx' = [scenIdx EXCEPT ![r] = 1]

\* ensureModelReady: the first checkModelHealth returned.  Unhealthy: the one
\* reload is requested.
HealthReturns(r) ==
    /\ pc[r] = "health"
    /\ \E healthy \in BOOLEAN :
         IF healthy
         THEN /\ ModelReady(r)
              /\ UNCHANGED hist
         ELSE /\ pc' = [pc EXCEPT ![r] = "reload"]
              /\ hist' = [hist EXCEPT ![r].reloads = @ + 1]
              /\ UNCHANGED scenIdx
    /\ UNCHANGED <<runningBenchmarks, benchmark_runs, benchmark_results, logs, models,
                   useJson, loaded, modelIds, nScenarios, modelIdx, completedTasks,
                   progressCb, now, faults>>
    /\ UNCHANGED <<svars, ovars, lvars>>

\* ensureModelReady: the reload returned (the second probe is sent) or threw
\* (caught; health is still the unhealthy one, so the model is given up).
ReloadReturns(r) ==
    /\ pc[r] = "reload"
    /\ \E loadOk \in BOOLEAN :
         IF loadOk
         THEN /\ loaded' = loadModel(loaded, Model(r))
              /\ pc' = [pc EXCEPT ![r] = "rehealth"]
              /\ hist' = [hist EXCEPT ![r].probes = @ + 1]
              /\ UNCHANGED <<runningBenchmarks, benchmark_runs, logs, modelIdx, faults>>
         ELSE /\ SkipModel(r, "unhealthy")
              /\ UNCHANGED loaded
    /\ UNCHANGED <<benchmark_results, models, useJson, modelIds, nScenarios, scenIdx,
                   completedTasks, progressCb, now>>
    /\ UNCHANGED <<svars, ovars, lvars>>

\* A second probe whose failure asks for another reload.
RehealthReturnsRetrying(r) ==
    /\ pc[r] = "rehealth"
    /\ \E healthy \in BOOLEAN :
         IF healthy
         THEN /\ ModelReady(r)
              /\ UNCHANGED hist
         ELSE /\ pc' = [pc EXCEPT ![r] = "reload"]
              /\ hist' = [hist EXCEPT ![r].reloads = @ + 1]
              /\ UNCHANGED scenIdx
    /\ UNCHANGED <<runningBenchmarks, benchmark_runs, logs, modelIdx, faults>>
    /\ UNCHANGED <<benchmark_results, models, useJson, loaded, modelIds, nScenarios,
                   completedTasks, progressCb, now>>
    /\ UNCHANGED <<svars, ovars, lvars>>

\* ensureModelReady: the second checkModelHealth returned.
RehealthReturns(r) ==
    /\ pc[r] = "rehealth"
    /\ \E healthy \in BOOLEAN :
         IF healthy
         THEN /\ ModelReady(r)
              /\ UNCHANGED <<runningBenchmarks, benchmark_runs, logs, modelIdx, faults, hist>>
         ELSE /\ SkipModel(r, "unhealthy")
              /\ UNCHANGED scenIdx
    /\ UNCHANGED <<benchmark_results, models, useJson, loaded, modelIds, nScenarios,
                   completedTasks, progressCb, now>>
    /\ UNCHANGED <<svars, ovars, lvars>>

\* The loop over suite.scenarios is over: the next model.
ModelDone(r) ==
    /\ pc[r] = "scen"
    /\ scenIdx[r] > nScenarios[r]
    /\ pc' = [pc EXCEPT ![r] = "model"]
    /\ modelIdx' = [modelIdx EXCEPT ![r] = @ + 1]
    /\ UNCHANGED <<runningBenchmarks, benchmark_runs, benchmark_results, logs, models,
                   useJson, loaded, modelIds, nScenarios, scenIdx, completedTasks,
                   progressCb, now, faults, hist>>
    /\ UNCHANGED <<svars, ovars, lvars>>

\* runScenario throws before its first await when the model is not in storage
\* or not in the orchestrator's cache.
ScenarioThrows(r) == Model(r) \notin models \/ ~getLoadedModelInfo(Model(r))

\* The finally block of a pair: completedTasks += 1; updateProgress().
Finally(r, registry) ==
    LET progress == Progress(completedTasks[r] + 1, totalTasks(r)) IN
    [done |-> completedTasks[r] + 1,
     registry |-> [registry EXCEPT ![r] = RunningEntry(progress)],
     progress |-> progress]

\* A pair whose failure marks the run failed, after which the loop goes on.
ScenarioFailedMarksRun(r, okLog, okUpdate) ==
    LET fin == Finally(r, runningBenchmarks) IN
    /\ logs' = Written(okLog, logs,
                 saveLog(logs, "benchmark", r, "error",
                         [kind |-> "scenario failed", model |-> Model(r),
                          scenario |-> scenIdx[r]]))
    /\ completedTasks' = [completedTasks EXCEPT ![r] = fin.done]
    /\ progressCb' = [progressCb EXCEPT ![r] = fin.progress]
    /\ IF okLog
       THEN /\ runningBenchmarks' = fin.registry
            /\ scenIdx' = [scenIdx EXCEPT ![r] = @ + 1]
            /\ pc' = [pc EXCEPT ![r] = "scen"]
            /\ benchmark_runs' = updateBenchmarkRun(benchmark_runs, r, "failed", now)
       ELSE /\ Catch(r, benchmark_runs, fin.registry, okUpdate)
            /\ UNCHANGED scenIdx

\* A pair with no catch block of its own: its failure ends the run.
ScenarioFailedEndsRun(r, okLog, okUpdate) ==
    LET fin == Finally(r, runningBenchmarks) IN
    /\ completedTasks' = [completedTasks EXCEPT ![r] = fin.done]
    /\ progressCb' = [progressCb EXCEPT ![r] = fin.progress]
    /\ Catch(r, benchmark_runs, fin.registry, TRUE)
    /\ UNCHANGED <<logs, scenIdx>>

\* The catch and finally blocks of a pair: saveLog, then the finally block,
\* then the next scenario; when saveLog throws, runTask's catch block after
\* the finally block.
ScenarioFailed(r, okLog, okUpdate) ==
    LET fin == Finally(r, runningBenchmarks) IN
    /\ logs' = Written(okLog, logs,
                 saveLog(logs, "benchmark", r, "error",
                         [kind |-> "scenario failed", model |-> Model(r),
                          scenario |-> scenIdx[r]]))
    /\ completedTasks' = [completedTasks EXCEPT ![r] = fin.done]
    /\ progressCb' = [progressCb EXCEPT ![r] = fin.progress]
    /\ IF okLog
       THEN /\ runningBenchmarks' = fin.registry
            /\ scenIdx' = [scenIdx EXCEPT ![r] = @ + 1]
            /\ pc' = [pc EXCEPT ![r] = "scen"]
            /\ UNCHANGED benchmark_runs
       ELSE /\ Catch(r, benchmark_runs, fin.registry, okUpdate)
            /\ UNCHANGED scenIdx

\* for (const scenario of suite.scenarios): runScenario is called and throws.
ScenarioRaises(r) ==
    /\ pc[r] = "scen"
    /\ scenIdx[r] <= nScenarios[r]
    /\ ScenarioThrows(r)
    /\ \E okLog, okUpdate \in BOOLEAN :
         LET oks == IF okLog THEN <<okLog>> ELSE <<okLog, okUpdate>> IN
         /\ faults + Thrown(oks) <= MaxFaults
         /\ faults' = faults + Thrown(oks)
         /\ hist' = [hist EXCEPT ![r].raised = @ \cup {<<modelIdx[r], scenIdx[r]>>},
                                 ![r].faulted = @ \/ ~okLog]
         /\ ScenarioFailed(r, okLog, okUpdate)
    /\ UNCHANGED <<benchmark_results, models, useJson, loaded, modelIds, nScenarios,
                   modelIdx, now>>
    /\ UNCHANGED <<svars, ovars, lvars>>

\* A pair that is counted and published when its scenario starts.
ScenarioStartsCounted(r) ==
    LET fin == Finally(r, runningBenchmarks) IN
    /\ pc[r] = "scen"
    /\ scenIdx[r] <= nScenarios[r]
    /\ ~ScenarioThrows(r)
    /\ pc' = [pc EXCEPT ![r] = "scenario"]
    /\ hist' = [hist EXCEPT ![r].started = @ \cup {<<modelIdx[r], scenIdx[r]>>}]
    /\ completedTasks' = [completedTasks EXCEPT ![r] = fin.done]
    /\ progressCb' = [progressCb EXCEPT ![r] = fin.progress]
    /\ runningBenchmarks' = fin.registry
    /\ UNCHANGED <<benchmark_runs, benchmark_results, logs, models,
                   useJson, loaded, modelIds, nScenarios, modelIdx, scenIdx,
                   now, faults>>
    /\ UNCHANGED <<svars, ovars, lvars>>

\* runScenario is called and reaches its first await: the iterations run.
ScenarioStarts(r) ==
    /\ pc[r] = "scen"
    /\ scenIdx[r] <= nScenarios[r]
    /\ ~ScenarioThrows(r)
    /\ pc' = [pc EXCEPT ![r] = "scenario"]
    /\ hist' = [hist EXCEPT ![r].started = @ \cup {<<modelIdx[r], scenIdx[r]>>}]
    /\ UNCHANGED <<runningBenchmarks, benchmark_runs, benchmark_results, logs, models,
                   useJson, loaded, modelIds, nScenarios, modelIdx, scenIdx,
                   completedTasks, progressCb, now, faults>>
    /\ UNCHANGED <<svars, ovars, lvars>>

\* runScenario returned: the result row is saved, then the finally block.  When
\* saveBenchmarkResult throws, the pair's catch block runs.
ScenarioReturns(r) ==
    /\ pc[r] = "scenario"
    /\ \E okSave, okLog, okUpdate \in BOOLEAN :
         LET row == [run_id |-> r, model_id |-> Model(r), scenario |-> scenIdx[r],
                     pos |-> modelIdx[r]]
             oks == IF okSave THEN <<okSave>>
                    ELSE IF okLog THEN <<okSave, okLog>>
                    ELSE <<okSave, okLog, okUpdate>>
             fin == Finally(r, runningBenchmarks)
         IN  /\ faults + Thrown(oks) <= MaxFaults
             /\ faults' = faults + Thrown(oks)
             /\ hist' = [hist EXCEPT ![r].returned = @ \cup {<<modelIdx[r], scenIdx[r]>>},
                                     ![r].faulted = @ \/ ~okSave]
             /\ benchmark_results' =
                  Written(okSave, benchmark_results,
                          saveBenchmarkResult(benchmark_results, row))
             /\ IF okSave
                THEN /\ completedTasks' = [completedTasks EXCEPT ![r] = fin.done]
                     /\ progressCb' = [progressCb EXCEPT ![r] = fin.progress]
                     /\ runningBenchmarks' = fin.registry
                     /\ scenIdx' = [scenIdx EXCEPT ![r] = @ + 1]
                     /\ pc' = [pc EXCEPT ![r] = "scen"]
                     /\ UNCHANGED <<benchmark_runs, logs>>
                ELSE ScenarioFailed(r, okLog, okUpdate)
    /\ UNCHANGED <<models, useJson, loaded, modelIds, nScenarios, modelIdx, now>>
    /\ UNCHANGED <<svars, ovars, lvars>>

\* The loop over modelIds is over.
AllModelsDone(r) == modelIdx[r] > Len(modelIds[r])

\* "Update run as completed": updateBenchmarkRun(completed), then the registry
\* entry with progress 100.
CompleteRun(r) ==
    /\ pc[r] = "model"
    /\ AllModelsDone(r)
    /\ \E ok, okUpdate \in BOOLEAN :
         LET runs == Written(ok, benchmark_runs,
                             updateBenchmarkRun(benchmark_runs, r, "completed", now))
             oks == IF ok THEN <<ok>> ELSE <<ok, okUpdate>>
         IN  /\ faults + Thrown(oks) <= MaxFaults
             /\ faults' = faults + Thrown(oks)
             /\ hist' = [hist EXCEPT ![r].faulted = @ \/ ~ok]
             /\ IF ok
                THEN /\ benchmark_runs' = runs
                     /\ runningBenchmarks' = [runningBenchmarks EXCEPT ![r] = CompletedEntry]
                     /\ pc' = [pc EXCEPT ![r] = "done"]
                ELSE Catch(r, runs, runningBenchmarks, okUpdate)
    /\ UNCHANGED <<benchmark_results, logs, models, useJson, loaded, modelIds,
                   nScenarios, modelIdx, scenIdx, completedTasks, progressCb, now>>
    /\ UNCHANGED <<svars, ovars, lvars>>

(***************************************************************************)
(* The environment of a run: the clock and the model routes of the server. *)
(***************************************************************************)
Tick ==
    /\ now < MaxTime
    /\ now' = now + 1
    /\ UNCHANGED <<runningBenchmarks, benchmark_runs, benchmark_results, logs, models,
                   useJson, loaded, pc, modelIds, nScenarios, modelIdx, scenIdx,
                   completedTasks, progressCb, faults, hist>>
    /\ UNCHANGED <<svars, ovars, lvars>>

\* DELETE /api/models/:id: unload when loaded, then storage.deleteModel
DeleteModel(m) ==
    /\ m \in models
    /\ models' = models \ {m}
    /\ loaded' = unloadModel(loaded, m)
    /\ UNCHANGED <<runningBenchmarks, benchmark_runs, benchmark_results, logs, useJson,
                   pc, modelIds, nScenarios, modelIdx, scenIdx, completedTasks,
                   progressCb, now, faults, hist>>
    /\ UNCHANGED <<svars, ovars, lvars>>

\* POST /api/models/:id/stop
StopModel(m) ==
    /\ m \in models
    /\ m \in loaded
    /\ loaded' = unloadModel(loaded, m)
    /\ UNCHANGED <<runningBenchmarks, benchmark_runs, benchmark_results, logs, models,
                   useJson, pc, modelIds, nScenarios, modelIdx, scenIdx, completedTasks,
                   progressCb, now, faults, hist>>
    /\ UNCHANGED <<svars, ovars, lvars>>

\* POST /api/models/:id/load (and /start)
StartModel(m) ==
    /\ m \in models
    /\ m \notin loaded
    /\ loaded' = loadModel(loaded, m)
    /\ UNCHANGED <<runningBenchmarks, benchmark_runs, benchmark_results, logs, models,
                   useJson, pc, modelIds, nScenarios, modelIdx, scenIdx, completedTasks,
                   progressCb, now, faults, hist>>
    /\ UNCHANGED <<svars, ovars, lvars>>

Init ==
    /\ InitCoordinator
    /\ useJson \in BOOLEAN
    /\ config = [iterations |-> 1, streaming |-> FALSE]
    /\ spc = "off"
    /\ i = 0
    /\ metrics = NewMetrics
    /\ results = NewResults
    /\ timers = {}
    /\ outcome = <<>>
    /\ aggregated = NoAggregate
    /\ modelId = "A"
    /\ modelInfo = NoModelInfo
    /\ requests = {}
    /\ deltas = 0
    /\ InitOrchestrator
    /\ appended = <<>>

Next ==
    \/ \E r \in 1..MaxRuns, ms \in ModelLists, n \in 0..MaxScenarios : StartRun(r, ms, n)
    \/ \E r \in RunIds :
         \/ SaveRun(r)
         \/ ModelMissing(r)
         \/ ModelFound(r)
         \/ LoadReturns(r)
         \/ HealthReturns(r)
         \/ ReloadReturns(r)
         \/ RehealthReturns(r)
         \/ ModelDone(r)
         \/ ScenarioRaises(r)
         \/ ScenarioStarts(r)
         \/ ScenarioReturns(r)
         \/ CompleteRun(r)
    \/ Tick
    \/ \E m \in Models : DeleteModel(m) \/ StopModel(m) \/ StartModel(m)

Spec == Init /\ [][Next]_vars

(***************************************************************************)
(* Several submissions: POST /api/benchmarks/run calls runBenchmark with   *)
(* returnImmediately, so the next request is served while the task of the  *)
(* previous one is suspended at an await.                                  *)
(***************************************************************************)
NextRuns ==
    \/ \E r \in RunIds, ms \in [1..MaxConcurrentTasks -> Models] :
         StartRun(r, ms, MaxConcurrentTasks)
    \/ \E r \in RunIds :
         \/ SaveRun(r)
         \/ ModelMissing(r)
         \/ ModelFound(r)
         \/ LoadReturns(r)
         \/ HealthReturns(r)
         \/ ReloadReturns(r)
         \/ RehealthReturns(r)
         \/ ModelDone(r)
         \/ ScenarioRaises(r)
         \/ ScenarioStarts(r)
         \/ ScenarioReturns(r)
         \/ CompleteRun(r)
    \/ Tick
    \/ \E m \in Models : DeleteModel(m) \/ StopModel(m) \/ StartModel(m)

SpecRuns == Init /\ [][NextRuns]_vars

InitScenario ==
    /\ config \in Configs
    /\ spc = "loop"
    /\ i = 0
    /\ metrics = NewMetrics
    /\ results = NewResults
    /\ timers = {}
    /\ outcome = <<>>
    /\ aggregated = NoAggregate
    /\ modelId \in Models
    /\ modelInfo = LoadedModelInfo(modelId)
    /\ requests = {}
    /\ deltas = 0
    /\ InitCoordinator
    /\ useJson \in BOOLEAN
    /\ InitOrchestrator
    /\ appended = <<>>

\* runScenario reaches runSingleInference: the metrics object is created and
\* the deadline timer armed, then the request is sent with model: modelName.
StartIteration ==
    /\ spc = "loop"
    /\ loopGoesOn(i, config)
    /\ metrics' = NewMetrics
    /\ timers' = timers \cup {i + 1}
    /\ spc' = "infer"
    /\ requests' = requests \cup {[descriptor |-> modelId, model |-> modelName(modelInfo)]}
    /\ deltas' = 0
    /\ UNCHANGED <<config, i, results, outcome, aggregated>>
    /\ UNCHANGED <<modelId, modelInfo>>
    /\ UNCHANGED <<cvars, ovars, lvars>>

\* A stream that records a delay for its first token as well.
ReceiveChunkDelayingFirst ==
    /\ spc = "infer"
    /\ config.streaming
    /\ \E content \in BOOLEAN, dt \in 0..MaxDelay :
         /\ content => metrics.tokens < MaxTokens
         /\ IF content
            THEN /\ metrics' =
                      IF metrics.ttft = Null
                      THEN [metrics EXCEPT !.ttft = dt,
                                           !.interTokenDelays = Append(@, dt),
                                           !.tokens = @ + 1]
                      ELSE [metrics EXCEPT !.interTokenDelays = Append(@, dt),
                                           !.tokens = @ + 1]
                 /\ deltas' = deltas + 1
            ELSE UNCHANGED <<metrics, deltas>>
    /\ UNCHANGED <<config, spc, i, results, timers, outcome, aggregated>>
    /\ UNCHANGED <<modelId, modelInfo, requests>>
    /\ UNCHANGED <<cvars, ovars, lvars>>

\* for await (const chunk of stream): one chunk, with or without content; at
\* most MaxTokens chunks of a stream have content.
ReceiveChunk ==
    /\ spc = "infer"
    /\ config.streaming
    /\ \E content \in BOOLEAN, dt \in 0..MaxDelay :
         /\ content => metrics.tokens < MaxTokens
         /\ IF content
            THEN /\ metrics' =
                      IF metrics.ttft = Null
                      THEN [metrics EXCEPT !.ttft = dt, !.tokens = @ + 1]
                      ELSE [metrics EXCEPT !.interTokenDelays = Append(@, dt),
                                           !.tokens = @ + 1]
                 /\ deltas' = deltas + 1
            ELSE UNCHANGED <<metrics, deltas>>
    /\ UNCHANGED <<config, spc, i, results, timers, outcome, aggregated>>
    /\ UNCHANGED <<modelId, modelInfo, requests>>
    /\ UNCHANGED <<cvars, ovars, lvars>>

\* A ttft taken to be the whole latency of a non-streaming response.
nonStreamingTtftAsLatency(latency) == latency

\* Non-streaming inference: metrics.ttft = null
nonStreamingTtft(latency) == Null

\* The request (or the stream) ends normally: clearTimeout, endTime.
InferenceReturns ==
    /\ spc = "infer"
    /\ \E completion_tokens \in 0..MaxTokens, latency \in 1..MaxLatency :
         metrics' = [metrics EXCEPT
                        !.tokens = IF config.streaming THEN @ ELSE completion_tokens,
                        !.ttft = IF config.streaming THEN @ ELSE nonStreamingTtft(latency),
                        !.latency = latency]
    /\ timers' = timers \ {i + 1}
    /\ outcome' = Append(outcome, "ok")
    /\ spc' = "after"
    /\ UNCHANGED <<config, i, results, aggregated>>
    /\ UNCHANGED <<modelId, modelInfo, requests, deltas>>
    /\ UNCHANGED <<cvars, ovars, lvars>>

\* The request throws for a reason other than the deadline: the catch block
\* sets error and endTime; it does not clear the timer.
InferenceThrows ==
    /\ spc = "infer"
    /\ \E latency \in 1..MaxLatency :
         metrics' = [metrics EXCEPT !.error = TRUE, !.latency = latency]
    /\ outcome' = Append(outcome, "error")
    /\ spc' = "after"
    /\ UNCHANGED <<config, i, results, timers, aggregated>>
    /\ UNCHANGED <<modelId, modelInfo, requests, deltas>>
    /\ UNCHANGED <<cvars, ovars, lvars>>

\* The deadline timer of iteration k fires: controller.abort();
\* metrics.timeout = true.  While the request is in flight the abort makes it
\* throw, and the catch block sets error.  After the request has thrown on its
\* own the timer is still armed and marks that iteration's metrics object,
\* wherever it is by then: in results.iterations, which with JSON storage is
\* also the raw_data of the saved record.
TimerFires(k) ==
    /\ k \in timers
    /\ timers' = timers \ {k}
    /\ IF k = i + 1 /\ spc = "infer"
       THEN /\ metrics' = [metrics EXCEPT !.timeout = TRUE, !.error = TRUE,
                                          !.latency = MaxLatency]
            /\ outcome' = Append(outcome, "timeout")
            /\ spc' = "after"
            /\ UNCHANGED results
       ELSE IF k = i + 1 /\ spc = "after"
       THEN /\ metrics' = [metrics EXCEPT !.timeout = TRUE]
            /\ UNCHANGED <<results, outcome, spc>>
       ELSE /\ results' = [results EXCEPT !.iterations[k].timeout = TRUE]
            /\ UNCHANGED <<metrics, outcome, spc>>
    /\ benchmark_results' =
         IF useJson /\ spc = "saved"
         THEN [benchmark_results EXCEPT ![1].raw_data[k].timeout = TRUE]
         ELSE benchmark_results
    /\ UNCHANGED <<config, i, aggregated>>
    /\ UNCHANGED <<modelId, modelInfo, requests, deltas>>
    /\ UNCHANGED <<runningBenchmarks, benchmark_runs, logs, models, useJson, loaded, pc,
                   modelIds, nScenarios, modelIdx, scenIdx, completedTasks, progressCb,
                   now, faults, hist>>
    /\ UNCHANGED <<ovars, lvars>>

\* runScenario after the inference: results.iterations.push(metrics), the
\* success lists, the error and timeout counters, then the next iteration.
RecordIteration ==
    /\ spc = "after"
    /\ LET ok == ~metrics.error /\ ~metrics.timeout IN
       results' =
         [iterations |-> Append(results.iterations, metrics),
          latencies |-> IF ok THEN Append(results.latencies, metrics.latency)
                        ELSE results.latencies,
          ttfts |-> IF ok /\ metrics.ttft # Null THEN Append(results.ttfts, metrics.ttft)
                    ELSE results.ttfts,
          tokenCounts |-> IF ok THEN Append(results.tokenCounts, metrics.tokens)
                          ELSE results.tokenCounts,
          allInterTokenDelays |->
              IF ok THEN results.allInterTokenDelays \o metrics.interTokenDelays
              ELSE results.allInterTokenDelays,
          errors |-> results.errors + (IF metrics.error THEN 1 ELSE 0),
          timeouts |-> results.timeouts + (IF metrics.timeout THEN 1 ELSE 0)]
    /\ i' = i + 1
    /\ spc' = "loop"
    /\ UNCHANGED <<config, metrics, timers, outcome, aggregated>>
    /\ UNCHANGED <<modelId, modelInfo, requests, deltas>>
    /\ UNCHANGED <<cvars, ovars, lvars>>

\* The loop is over: the aggregates are computed and returned.
FinishScenario ==
    /\ spc = "loop"
    /\ ~loopGoesOn(i, config)
    /\ aggregated' = Aggregate(results, config)
    /\ spc' = "done"
    /\ UNCHANGED <<config, i, metrics, results, timers, outcome>>
    /\ UNCHANGED <<modelId, modelInfo, requests, deltas>>
    /\ UNCHANGED <<cvars, ovars, lvars>>

\* The caller of runScenario saves the result record:
\* {id, run_id, model_id, scenario, ...result.aggregated, raw_data}.
SaveResult ==
    /\ spc = "done"
    /\ spc' = "saved"
    /\ benchmark_results' =
         saveBenchmarkResult(benchmark_results,
             [run_id |-> 1, model_id |-> modelId, scenario |-> 1, pos |-> 1,
              raw_data |-> results.iterations] @@ aggregated)
    /\ UNCHANGED <<config, i, metrics, results, timers, outcome, aggregated,
                   modelId, modelInfo, requests, deltas>>
    /\ UNCHANGED <<runningBenchmarks, benchmark_runs, logs, models, useJson, loaded, pc,
                   modelIds, nScenarios, modelIdx, scenIdx, completedTasks, progressCb,
                   now, faults, hist>>
    /\ UNCHANGED <<ovars, lvars>>

NextScenario ==
    \/ SaveResult
    \/ StartIteration
    \/ ReceiveChunk
    \/ InferenceReturns
    \/ InferenceThrows
    \/ \E k \in 1..MaxIter : TimerFires(k)
    \/ RecordIteration
    \/ FinishScenario

SpecScenario == InitScenario /\ [][NextScenario]_vars

(***************************************************************************)
(* runScenario with the config of a request body, as POST                  *)
(* /api/benchmarks/run passes it to runBenchmark and runBenchmark to       *)
(* runScenario.                                                            *)
(***************************************************************************)
InitSubmit ==
    /\ config \in SubmittedConfigs
    /\ spc = "loop"
    /\ i = 0
    /\ metrics = NewMetrics
    /\ results = NewResults
    /\ timers = {}
    /\ outcome = <<>>
    /\ aggregated = NoAggregate
    /\ modelId = "A"
    /\ modelInfo = LoadedModelInfo(modelId)
    /\ requests = {}
    /\ deltas = 0
    /\ InitCoordinator
    /\ useJson \in BOOLEAN
    /\ InitOrchestrator
    /\ appended = <<>>

SpecSubmit == InitSubmit /\ [][NextScenario]_vars

(***************************************************************************)
(* The service orchestrator: startService, waitForService, stopService and *)
(* the handlers of the child process, one action per piece of code between *)
(* two awaits.                                                             *)
(***************************************************************************)
\* The next call made, and the next process spawned.
FreeCall(c) == calls[c].op = "none" /\ \A d \in CallIds : d < c => calls[d].op # "none"

\* process.kill(signal): the signal is sent when the process runs, and then
\* ChildProcess.killed is true.
kill(ps, p) == IF ps[p].state = "running" THEN [ps EXCEPT ![p].killed = TRUE] ELSE ps

\* startService: "Service already running", return existing
returnExisting(c, m) ==
    calls' = [calls EXCEPT ![c] =
                [op |-> "start", model |-> m, pc |-> "returned",
                 proc |-> services[m].proc, port |-> services[m].port,
                 existing |-> TRUE, ready |-> procs[services[m].proc].ready]]

\* POST /api/models/:id/start: startService up to await waitForService.  The
\* tracked entry is returned at once; otherwise a port is taken, the process
\* spawned and the entry set before the wait.
StartService(c, m) ==
    /\ FreeCall(c)
    /\ m \in models
    /\ IF AlreadyRunning(m)
       THEN /\ returnExisting(c, m)
            /\ UNCHANGED <<services, portCounter, procs>>
       ELSE /\ portCounter < MaxSpawns
            /\ LET p == portCounter + 1
                   port == basePort + portCounter
               IN  /\ portCounter' = portCounter + 1
                   /\ procs' = [procs EXCEPT ![p] =
                                  [model |-> m, state |-> "running",
                                   killed |-> FALSE, ready |-> FALSE]]
                   /\ services' = [services EXCEPT ![m] = [proc |-> p, port |-> port]]
                   /\ calls' = [calls EXCEPT ![c] =
                                  [op |-> "start", model |-> m, pc |-> "wait",
                                   proc |-> p, port |-> port,
                                   existing |-> FALSE, ready |-> FALSE]]
    /\ UNCHANGED modelStatus
    /\ UNCHANGED <<svars, cvars, lvars>>

\* waitForService: client.models.list() answered.  startService sets the
\* status to running and returns serviceInfo.
WaitReturns(c) ==
    /\ calls[c].op = "start"
    /\ calls[c].pc = "wait"
    /\ procs[calls[c].proc].state = "running"
    /\ procs[calls[c].proc].ready
    /\ modelStatus' = updateModelStatus(modelStatus, calls[c].model, "running")
    /\ calls' = [calls EXCEPT ![c].pc = "returned", ![c].ready = TRUE]
    /\ UNCHANGED <<services, portCounter, procs>>
    /\ UNCHANGED <<svars, cvars, lvars>>

\* waitForService: no answer within the timeout.  startService sets the status
\* to error and rethrows; the entry stays in the map.
WaitThrows(c) ==
    /\ calls[c].op = "start"
    /\ calls[c].pc = "wait"
    /\ ~(procs[calls[c].proc].state = "running" /\ procs[calls[c].proc].ready)
    /\ modelStatus' = updateModelStatus(modelStatus, calls[c].model, "error")
    /\ calls' = [calls EXCEPT ![c].pc = "threw"]
    /\ UNCHANGED <<services, portCounter, procs>>
    /\ UNCHANGED <<svars, cvars, lvars>>

\* The service of process p starts to answer.
ServiceAnswers(p) ==
    /\ procs[p].state = "running"
    /\ ~procs[p].ready
    /\ procs' = [procs EXCEPT ![p].ready = TRUE]
    /\ UNCHANGED <<services, portCounter, modelStatus, calls>>
    /\ UNCHANGED <<svars, cvars, lvars>>

\* process.on('error'): the process could not be spawned.
ProcessError(p) ==
    /\ procs[p].state = "running"
    /\ ~procs[p].ready
    /\ ~procs[p].killed
    /\ procs' = [procs EXCEPT ![p].state = "failed"]
    /\ modelStatus' = updateModelStatus(modelStatus, procs[p].model, "error")
    /\ UNCHANGED <<services, portCounter, calls>>
    /\ UNCHANGED <<svars, cvars, lvars>>

\* process.on('exit'): the status is set to stopped and the entry of the
\* model is deleted from the map.
ProcessExit(p) ==
    /\ procs[p].state = "running"
    /\ procs' = [procs EXCEPT ![p].state = "exited", ![p].ready = FALSE]
    /\ modelStatus' = updateModelStatus(modelStatus, procs[p].model, "stopped")
    /\ services' = [services EXCEPT ![procs[p].model] = NoService]
    /\ UNCHANGED <<portCounter, calls>>
    /\ UNCHANGED <<svars, cvars, lvars>>

\* POST /api/models/:id/stop: stopService up to the 2 s wait.  SIGTERM is sent
\* to the tracked process; without an entry the call returns.
StopService(c, m) ==
    /\ FreeCall(c)
    /\ IF services[m].proc = 0
       THEN /\ calls' = [calls EXCEPT ![c] =
                           [NoCall EXCEPT !.op = "stop", !.model = m, !.pc = "returned"]]
            /\ UNCHANGED procs
       ELSE /\ procs' = kill(procs, services[m].proc)
            /\ calls' = [calls EXCEPT ![c] =
                           [NoCall EXCEPT !.op = "stop", !.model = m, !.pc = "sleep",
                                          !.proc = services[m].proc]]
    /\ UNCHANGED <<services, portCounter, modelStatus>>
    /\ UNCHANGED <<svars, cvars, lvars>>

\* stopService after the wait: SIGKILL unless killed, services.delete(modelId),
\* status stopped.
StopContinues(c) ==
    /\ calls[c].op = "stop"
    /\ calls[c].pc = "sleep"
    /\ procs' = IF procs[calls[c].proc].killed THEN procs ELSE kill(procs, calls[c].proc)
    /\ services' = [services EXCEPT ![calls[c].model] = NoService]
    /\ modelStatus' = updateModelStatus(modelStatus, calls[c].model, "stopped")
    /\ calls' = [calls EXCEPT ![c].pc = "returned"]
    /\ UNCHANGED portCounter
    /\ UNCHANGED <<svars, cvars, lvars>>

NextOrchestrator ==
    \/ \E c \in CallIds, m \in Models : StartService(c, m) \/ StopService(c, m)
    \/ \E c \in CallIds : WaitReturns(c) \/ WaitThrows(c) \/ StopContinues(c)
    \/ \E p \in ProcIds : ServiceAnswers(p) \/ ProcessError(p) \/ ProcessExit(p)

SpecOrchestrator == Init /\ [][NextOrchestrator]_vars

(***************************************************************************)
(* The log: any sequence of storage.saveLog calls.                         *)
(***************************************************************************)
\* storage.saveLog(entityType, entityId, level, message); the message is the
\* number of the call.  saveJsonData may throw after the push.
AppendLog ==
    /\ Len(appended) < MaxAppends
    /\ \E ok \in BOOLEAN :
         /\ faults + Thrown(<<ok>>) <= MaxFaults
         /\ faults' = faults + Thrown(<<ok>>)
         /\ logs' = Written(ok, logs,
                      saveLog(logs, "benchmark", 1, "info", Len(appended) + 1))
         /\ appended' = Written(ok, appended,
                          Append(appended,
                                 logEntry(logs, "benchmark", 1, "info", Len(appended) + 1)))
    /\ UNCHANGED <<runningBenchmarks, benchmark_runs, benchmark_results, models, useJson,
                   loaded, pc, modelIds, nScenarios, modelIdx, scenIdx, completedTasks,
                   progressCb, now, hist>>
    /\ UNCHANGED <<svars, ovars>>

NextLog == AppendLog

SpecLog == Init /\ [][NextLog]_vars

(***************************************************************************)
(* Claims about the scenario runner, checked under SpecScenario.           *)
(***************************************************************************)
\* Every inference call of the finished scenario ran into its deadline.
AllTimedOut ==
    /\ spc = "done"
    /\ \A k \in 1..Len(outcome) : outcome[k] = "timeout"

\* C1, as claimed: an iteration that exceeds the timeout is counted only as a
\* timeout; when every iteration times out the result has timeout_rate = 100,
\* error_rate = 0, successful_iterations = 0, all three latency percentiles 0,
\* tps = 0 and ttft, tpot, gen_tps null.
C1_TimeoutCountedOnlyAsTimeout ==
    AllTimedOut =>
        /\ aggregated.timeout_rate = Hundred
        /\ aggregated.error_rate = Zero
        /\ aggregated.successful_iterations = 0
        /\ aggregated.latency_p50 = 0
        /\ aggregated.latency_p95 = 0
        /\ aggregated.latency_p99 = 0
        /\ aggregated.tps = Zero
        /\ aggregated.ttft = Null
        /\ aggregated.tpot = NullRat
        /\ aggregated.gen_tps = NullRat

C13_PercentilesOrdered ==
    /\ spc = "done" =>
         /\ aggregated.latency_p50 <= aggregated.latency_p95
         /\ aggregated.latency_p95 <= aggregated.latency_p99
    /\ (spc = "loop" /\ i = 0) =>
         \A n \in 1..MaxSamples :
            /\ percentileIndex(n, 50) <= percentileIndex(n, 95)
            /\ percentileIndex(n, 95) <= percentileIndex(n, 99)
            /\ percentileIndex(n, 99) < n

\* A result whose median latency is below its 95th percentile.
C13_Witness ==
    /\ spc = "done"
    /\ Len(results.latencies) >= 2
    /\ aggregated.latency_p50 < aggregated.latency_p95

\* C14: with streaming = false in the run config, the result of a scenario
\* has ttft, tpot and gen_tps null, whatever token counts and latencies the
\* backend reported.
C14_NoStreamingNoTokenTimings ==
    (spc = "done" /\ ~config.streaming) =>
        /\ aggregated.ttft = Null
        /\ aggregated.tpot = NullRat
        /\ aggregated.gen_tps = NullRat

\* A non-streaming result with successful iterations that produced tokens.
C14_Witness ==
    /\ spc = "done"
    /\ ~config.streaming
    /\ aggregated.successful_iterations > 0
    /\ aggregated.total_tokens > 0

\* The result of the finished scenario as getBenchmarkResults returns it.
ReadBack == getBenchmarkResults(benchmark_results, 1)[1]

\* C17, as claimed: a result read back from the repository has error_rate and
\* timeout_rate set to the values runScenario computed, 0 included, under
\* SQLite and under JSON storage, and the other saved aggregates unchanged.
C17_RatesReadBack ==
    spc = "saved" =>
        /\ ReadBack.error_rate = aggregated.error_rate
        /\ ReadBack.timeout_rate = aggregated.timeout_rate
        /\ ReadBack.error_rate # NullRat
        /\ ReadBack.timeout_rate # NullRat
        /\ ReadBack.tps = aggregated.tps
        /\ ReadBack.ttft = aggregated.ttft
        /\ ReadBack.tpot = aggregated.tpot
        /\ ReadBack.gen_tps = aggregated.gen_tps
        /\ ReadBack.latency_p50 = aggregated.latency_p50
        /\ ReadBack.latency_p95 = aggregated.latency_p95
        /\ ReadBack.latency_p99 = aggregated.latency_p99

\* C22, as claimed: an iteration that failed with an error other than the
\* deadline has timeout = false: in the timeouts counter, in the iterations
\* runScenario keeps, and in the raw_data saved with the result.
C22_ErrorIsNotTimeout ==
    /\ \A k \in 1..Len(results.iterations) :
         outcome[k] = "error" => ~results.iterations[k].timeout
    /\ results.timeouts =
         Cardinality({k \in 1..Len(results.iterations) : outcome[k] = "timeout"})
    /\ spc = "saved" =>
         \A k \in 1..Len(ReadBack.raw_data) :
             outcome[k] = "error" => ~ReadBack.raw_data[k].timeout

\* The inference calls runScenario has made: those that ended and the one in
\* flight.
Calls == Len(outcome) + (IF spc = "infer" THEN 1 ELSE 0)

\* C23, as claimed: runScenario makes its calls one after another, never more
\* than config.iterations of them, and ends with exactly config.iterations
\* calls made and total_iterations = config.iterations; a submitted config
\* without iterations counts as iterations = 5.
C23_IterationsOrDefault ==
    LET n == IF config.iterations = Undefined THEN DefaultIterations
             ELSE config.iterations
    IN  /\ Calls <= n
        /\ Calls = i + (IF spc \in {"infer", "after"} THEN 1 ELSE 0)
        /\ spc \in {"done", "saved"} =>
             /\ Calls = n
             /\ aggregated.total_iterations = n

\* The same for the configs that name their iterations.
C23_IterationsWhenGiven ==
    config.iterations # Undefined =>
        /\ Calls <= config.iterations
        /\ Calls = i + (IF spc \in {"infer", "after"} THEN 1 ELSE 0)
        /\ spc \in {"done", "saved"} =>
             /\ Calls = config.iterations
             /\ aggregated.total_iterations = config.iterations

\* ceil(K/100 x n): the least c with K x n <= 100 x c.
CeilOfHundredth(K, n) == CHOOSE c \in 0..n : K * n <= 100 * c /\ 100 * (c - 1) < K * n

\* L[ceil(K/100 x |L|) - 1] with the index clamped to at least 0 (0-based), and
\* 0 for the empty list.
PercentileOf(L, K) ==
    IF Len(L) = 0 THEN 0
    ELSE LET index == CeilOfHundredth(K, Len(L)) - 1
         IN  L[(IF index < 0 THEN 0 ELSE index) + 1]

\* C24: the percentiles of a result are L[ceil(K/100 x |L|) - 1] (index at
\* least 0) over the sorted successful latencies L, 0 when there are none; for
\* every length 1..100 and K in {50, 95, 99} the index is within 0..|L|-1 and
\* is that of the formula (a fact about numbers, evaluated in the initial
\* states); one latency gives three equal percentiles.
C24_PercentileFormula ==
    /\ spc = "done" =>
         LET L == SortAsc(results.latencies) IN
         /\ aggregated.latency_p50 = PercentileOf(L, 50)
         /\ aggregated.latency_p95 = PercentileOf(L, 95)
         /\ aggregated.latency_p99 = PercentileOf(L, 99)
         /\ Len(L) = 0 => aggregated.latency_p50 = 0 /\ aggregated.latency_p95 = 0
                          /\ aggregated.latency_p99 = 0
         /\ Len(L) = 1 => aggregated.latency_p50 = L[1] /\ aggregated.latency_p95 = L[1]
                          /\ aggregated.latency_p99 = L[1]
    /\ (spc = "loop" /\ i = 0) =>
         \A n \in 1..MaxSamples : \A K \in {50, 95, 99} :
             /\ percentileIndex(n, K) \in 0..(n - 1)
             /\ percentileIndex(n, K) = CeilOfHundredth(K, n) - 1

\* Three successful latencies whose median is below the 99th percentile.
C24_Witness ==
    /\ spc = "done"
    /\ Len(results.latencies) = 3
    /\ aggregated.latency_p50 = SortAsc(results.latencies)[2]
    /\ aggregated.latency_p99 = SortAsc(results.latencies)[3]
    /\ aggregated.latency_p50 < aggregated.latency_p99

\* What the claim says of a streaming iteration's metrics object.
StreamCounts(mt) ==
    /\ (mt.ttft # Null) <=> (mt.tokens >= 1)
    /\ Len(mt.interTokenDelays) = (IF mt.tokens >= 1 THEN mt.tokens - 1 ELSE 0)

\* C25: in a streaming iteration tokens is the number of non-empty content
\* deltas received, ttft is set from the first of them on, and every later one
\* adds one inter-token delay, so there are max(0, tokens - 1) delays; when
\* every successful stream of a scenario had exactly one token, the result has
\* ttft set and tpot and gen_tps null.
C25_StreamTokensAndDelays ==
    config.streaming =>
        /\ spc \in {"infer", "after"} => metrics.tokens = deltas
        /\ spc \in {"infer", "after"} => StreamCounts(metrics)
        /\ \A k \in 1..Len(results.iterations) : StreamCounts(results.iterations[k])
        /\ (/\ spc = "done"
            /\ \E k \in 1..Len(outcome) : outcome[k] = "ok"
            /\ \A k \in 1..Len(outcome) :
                 outcome[k] = "ok" => results.iterations[k].tokens = 1) =>
             /\ aggregated.ttft # Null
             /\ aggregated.tpot = NullRat
             /\ aggregated.gen_tps = NullRat

\* A finished streaming scenario whose only stream had one token.
C25_Witness ==
    /\ config.streaming
    /\ spc = "done"
    /\ outcome = <<"ok">>
    /\ results.iterations[1].tokens = 1
    /\ results.iterations[1].ttft # Null
    /\ results.iterations[1].interTokenDelays = <<>>
    /\ aggregated.tpot = NullRat

\* C26, as claimed: successful_iterations is the number of iterations that
\* ended with neither an error nor a timeout, which is the number of latencies
\* kept, so it is at least 0 and at most total_iterations.
C26_SuccessfulIsCountOfSuccesses ==
    spc = "done" =>
        /\ aggregated.successful_iterations = Len(results.latencies)
        /\ aggregated.successful_iterations =
             Cardinality({k \in 1..Len(results.iterations) :
                            /\ ~results.iterations[k].error
                            /\ ~results.iterations[k].timeout})
        /\ aggregated.successful_iterations >= 0
        /\ aggregated.successful_iterations <= aggregated.total_iterations

(***************************************************************************)
(* Claims about the run coordinator, checked under Spec.                   *)
(***************************************************************************)
Terminal == {"completed", "failed"}

\* runTask has returned or thrown.
Ended(r) == pc[r] \in {"done", "failed"}

\* The result rows of run r.
ResultsOf(r) == SelectSeq(benchmark_results, LAMBDA row : row.run_id = r)

\* The error entries logged against (benchmark, r) whose message is one of kinds.
ErrorLogs(r, kinds) ==
    SelectSeq(logs, LAMBDA e : /\ e.entity_type = "benchmark"
                               /\ e.entity_id = r
                               /\ e.level = "error"
                               /\ e.message.kind \in kinds)

\* A status may stay, or leave running for completed or failed.
LegalMove(old, new) ==
    \/ new = old
    \/ old = "running" /\ new \in Terminal

\* C3: a run's status, in the repository and in the registry, only moves from
\* running to completed or to failed; the step that moves it is the step in
\* which the run's task ends; a terminal status never changes again.  (A row
\* or an entry that did not exist may appear: as running, or, when
\* saveBenchmarkRun threw under JSON storage, as failed.)
C3_StatusMovesOnce ==
    [][\A r \in RunIds :
         /\ \/ LegalMove(benchmark_runs[r].status, benchmark_runs'[r].status)
            \/ /\ benchmark_runs[r].status = "none"
               /\ benchmark_runs'[r].status \in {"running", "failed"}
         /\ \/ LegalMove(runningBenchmarks[r].status, runningBenchmarks'[r].status)
            \/ /\ runningBenchmarks[r].status = "none"
               /\ runningBenchmarks'[r].status = "running"
         /\ (\/ benchmark_runs'[r].status \in Terminal \ {benchmark_runs[r].status}
             \/ runningBenchmarks'[r].status \in Terminal \ {runningBenchmarks[r].status})
            => ~Ended(r) /\ Ended(r)'
      ]_vars

\* A run that made progress and then failed, in the repository and the registry.
C3_Witness ==
    \E r \in RunIds :
        /\ benchmark_runs[r].status = "failed"
        /\ runningBenchmarks[r].status = "failed"
        /\ completedTasks[r] > 0

\* C4, as claimed: a run whose task has ended (every call it made returned,
\* with a value or an error) has status completed or failed in the registry
\* and in the repository.
C4_EndedRunIsTerminalEverywhere ==
    \A r \in RunIds :
        Ended(r) => /\ runningBenchmarks[r].status \in Terminal
                    /\ benchmark_runs[r].status \in Terminal

\* C5: once a run's status is completed or failed, in the repository or in
\* the registry, no result row is added for it.
C5_NoResultAfterTerminal ==
    [][\A r \in RunIds :
         (\/ benchmark_runs[r].status \in Terminal
          \/ runningBenchmarks[r].status \in Terminal)
         => ResultsOf(r)' = ResultsOf(r)
      ]_vars

\* A terminal run with a result row.
C5_Witness ==
    \E r \in RunIds :
        /\ benchmark_runs[r].status \in Terminal
        /\ runningBenchmarks[r].status \in Terminal
        /\ Len(ResultsOf(r)) > 0

\* C6, as claimed: the registry's progress of a run never decreases, whether
\* the run ends completed or failed.
C6_ProgressNeverDecreases ==
    [][\A r \in RunIds :
         runningBenchmarks'[r].progress >= runningBenchmarks[r].progress
      ]_vars

\* C6, amended: the registry's progress of a run never decreases while the
\* run is running nor when it completes; the entry of a failed run has
\* progress 0.
C6_ProgressNeverDecreasesUnlessFailed ==
    [][\A r \in RunIds :
         IF runningBenchmarks'[r].status = "failed"
         THEN runningBenchmarks'[r].progress = 0
         ELSE runningBenchmarks'[r].progress >= runningBenchmarks[r].progress
      ]_vars

\* A run that completed after progress updates below 100 and at 100.
C6_Witness ==
    \E r \in RunIds :
        /\ runningBenchmarks[r].status = "completed"
        /\ totalTasks(r) = 4
        /\ progressCb[r] = 100

\* C7: a run record with a terminal status has completed_at set and not
\* before started_at; a registry entry with a terminal status has progress 100
\* exactly when the status is completed.
C7_TerminalRunConsistent ==
    \A r \in RunIds :
        /\ benchmark_runs[r].status \in Terminal =>
               /\ benchmark_runs[r].completed_at # Null
               /\ benchmark_runs[r].completed_at >= benchmark_runs[r].started_at
        /\ runningBenchmarks[r].status \in Terminal =>
               (runningBenchmarks[r].progress = 100
                    <=> runningBenchmarks[r].status = "completed")

\* A run that failed after its progress had reached 100, some time after it
\* started.
C7_Witness ==
    \E r \in RunIds :
        /\ runningBenchmarks[r].status = "failed"
        /\ benchmark_runs[r].status = "failed"
        /\ progressCb[r] = 100
        /\ benchmark_runs[r].completed_at > benchmark_runs[r].started_at

SkipKinds == {"not found in storage", "auto-load failed", "unhealthy"}

\* Every pair of position p was attempted: its runScenario returned or threw.
Attempted(r, p) ==
    \A s \in 1..nScenarios[r] : <<p, s>> \in hist[r].returned \cup hist[r].raised

\* C8: a model that fails readiness (no descriptor, load failed, unhealthy
\* after the reload) has no scenario run and no result row; an error entry is
\* logged against (benchmark, run) for it; the other models are processed; and
\* the run ends completed: it fails only when a storage write threw.
C8_UnreadyModelAbsorbed ==
    \A r \in RunIds :
        /\ \A p \in hist[r].skipped :
             /\ \A a \in hist[r].started \cup hist[r].raised \cup hist[r].returned :
                  a[1] # p
             /\ \A k \in 1..Len(benchmark_results) :
                  ~(benchmark_results[k].run_id = r /\ benchmark_results[k].pos = p)
        /\ pc[r] # "failed" =>
             Len(ErrorLogs(r, SkipKinds)) = Cardinality(hist[r].skipped)
        /\ pc[r] = "done" =>
             /\ runningBenchmarks[r].status = "completed"
             /\ benchmark_runs[r].status = "completed"
             /\ \A p \in 1..Len(modelIds[r]) : p \in hist[r].skipped \/ Attempted(r, p)
        /\ (Ended(r) /\ ~hist[r].faulted) => pc[r] = "done"

\* A completed run that skipped its first model and saved a result for its
\* second.
C8_Witness ==
    \E r \in RunIds :
        /\ pc[r] = "done"
        /\ 1 \in hist[r].skipped
        /\ <<2, 1>> \in hist[r].returned
        /\ Len(ResultsOf(r)) > 0

\* C9, as claimed: in every completed run in which progressCallback was
\* called, the last progress the coordinator gave it is 100.
C9_LastProgressIs100 ==
    \A r \in RunIds :
        (/\ pc[r] = "done"
         /\ runningBenchmarks[r].status = "completed"
         /\ progressCb[r] # Null)
            => progressCb[r] = 100

\* The pair <<p, s>> comes before <<q, t>> in the order the run takes them.
Before(a, b) == a[1] < b[1] \/ (a[1] = b[1] /\ a[2] < b[2])

\* C10: a pair whose runScenario throws has no result row and an error entry
\* logged against (benchmark, run); completedTasks counts it like the pairs
\* that returned; the pairs after it are attempted; and the run ends
\* completed: it fails only when a storage write threw.
C10_RaisedPairAbsorbed ==
    \A r \in RunIds :
        /\ \A a \in hist[r].raised :
             /\ \A k \in 1..Len(benchmark_results) :
                  ~(/\ benchmark_results[k].run_id = r
                    /\ benchmark_results[k].pos = a[1]
                    /\ benchmark_results[k].scenario = a[2])
             /\ pc[r] # "failed" =>
                  \E k \in 1..Len(logs) :
                      /\ logs[k].entity_type = "benchmark"
                      /\ logs[k].entity_id = r
                      /\ logs[k].level = "error"
                      /\ logs[k].message = [kind |-> "scenario failed",
                                            model |-> modelIds[r][a[1]],
                                            scenario |-> a[2]]
        /\ completedTasks[r] = Cardinality(hist[r].raised \cup hist[r].returned)
        /\ pc[r] = "done" =>
             \A p \in 1..Len(modelIds[r]) : p \in hist[r].skipped \/ Attempted(r, p)
        /\ (Ended(r) /\ ~hist[r].faulted) =>
             /\ pc[r] = "done"
             /\ benchmark_runs[r].status = "completed"

\* A completed run in which a pair threw and a later pair returned.
C10_Witness ==
    \E r \in RunIds :
        /\ pc[r] = "done"
        /\ \E a \in hist[r].raised, b \in hist[r].returned : Before(a, b)

\* C12, as claimed: the repository never holds two results with the same
\* (run_id, model_id, scenario), and a completed run has as many results as
\* pairs of a ready model and a scenario whose runScenario returned.
C12_OneResultPerPair ==
    /\ \A j, k \in 1..Len(benchmark_results) :
         (/\ j # k
          /\ benchmark_results[j].run_id = benchmark_results[k].run_id
          /\ benchmark_results[j].model_id = benchmark_results[k].model_id)
            => benchmark_results[j].scenario # benchmark_results[k].scenario
    /\ \A r \in RunIds :
         (pc[r] = "done" /\ ~hist[r].faulted)
             => Len(ResultsOf(r)) = Cardinality(hist[r].returned)

\* C15, as claimed: a submission whose modelIds holds an id that is not a
\* registered model descriptor creates no registry entry and no run record.
C15_UnregisteredModelRejected ==
    [][\A r \in RunIds :
         (\/ runningBenchmarks[r].status = "none" /\ runningBenchmarks'[r].status # "none"
          \/ benchmark_runs[r].status = "none" /\ benchmark_runs'[r].status # "none")
         => \A k \in 1..Len(modelIds'[r]) : modelIds'[r][k] \in models
      ]_vars

\* C16, as claimed: no two runs are in status running at the same time, and
\* no two runs are inside runScenario at the same time.
C16_AtMostOneActiveRun ==
    /\ Cardinality({r \in RunIds : runningBenchmarks[r].status = "running"}) <= 1
    /\ Cardinality({r \in RunIds : benchmark_runs[r].status = "running"}) <= 1
    /\ Cardinality({r \in RunIds : pc[r] = "scenario"}) <= 1

\* C27, as claimed: when the registry shows a run completed or failed, the
\* repository has the run's record with the same status and completed_at set,
\* also when saveBenchmarkRun threw.
C27_RegistryTerminalHasRecord ==
    \A r \in RunIds :
        runningBenchmarks[r].status \in Terminal =>
            /\ benchmark_runs[r].status = runningBenchmarks[r].status
            /\ benchmark_runs[r].completed_at # Null

(***************************************************************************)
(* Claims about the service orchestrator, checked under SpecOrchestrator.  *)
(***************************************************************************)
\* C18, as claimed: a start request for a model whose service is tracked and
\* alive returns the tracked entry without a new process or port, and the
\* service the caller gets is ready.
C18_SecondStartGetsReadyService ==
    \A c \in CallIds :
        (calls[c].op = "start" /\ calls[c].pc = "returned" /\ calls[c].existing)
            => /\ calls[c].proc # 0
               /\ calls[c].port = basePort + calls[c].proc - 1
               /\ calls[c].ready

\* The pairs of run r that have a row in benchmark_results.
WrittenPairs(r) ==
    {<<benchmark_results[k].pos, benchmark_results[k].scenario>> :
        k \in {j \in 1..Len(benchmark_results) : benchmark_results[j].run_id = r}}

\* C20: every result row belongs to a run whose record is in benchmark_runs,
\* and the pairs a run's progress counts are the pairs whose scenario has
\* returned or raised, each returned one with its row written (a row is
\* missing only where a write threw under SQLite).
C20_RecordThenResultThenProgress ==
    /\ \A k \in 1..Len(benchmark_results) :
         benchmark_runs[benchmark_results[k].run_id].status # "none"
    /\ \A r \in RunIds :
         /\ completedTasks[r] = Cardinality(hist[r].returned \cup hist[r].raised)
         /\ WrittenPairs(r) \subseteq hist[r].returned
         /\ useJson => hist[r].returned \subseteq WrittenPairs(r)
         /\ Cardinality(hist[r].returned \ WrittenPairs(r)) <= faults

\* A running run with a row written and its pair published.
C20_Witness ==
    \E r \in RunIds :
        /\ benchmark_runs[r].status = "running"
        /\ WrittenPairs(r) # {}
        /\ completedTasks[r] > 0
        /\ progressCb[r] # Null
        /\ runningBenchmarks[r].progress > 0

\* The steps ensureModelReady may take once the first probe was unhealthy: the
\* reload returns and the second probe is sent, the second probe is healthy
\* and the scenarios begin, or the model is given up, with an error entry and
\* the loop at the next model (or the run failed because saveLog threw).
AfterUnhealthy(r) ==
    (pc[r] \in {"reload", "rehealth"} /\ pc'[r] # pc[r]) =>
        \/ pc[r] = "reload" /\ pc'[r] = "rehealth"
        \/ pc[r] = "rehealth" /\ pc'[r] = "scen"
        \/ /\ modelIdx[r] \in hist'[r].skipped
           /\ \/ pc'[r] = "failed"
              \/ /\ pc'[r] = "model"
                 /\ modelIdx'[r] = modelIdx[r] + 1
                 /\ Len(ErrorLogs(r, {"unhealthy"})') = Len(ErrorLogs(r, {"unhealthy"})) + 1

\* C21: for a model of a run ensureModelReady sends at most two health probes
\* and asks for at most one reload, the reload only after an unhealthy probe;
\* when the reload throws or the second probe is unhealthy the model is given
\* up with an error entry and the loop moves to the next model.
C21_OneReloadOnly ==
    /\ [](\A r \in RunIds :
            /\ hist[r].reloads <= 1
            /\ hist[r].probes <= hist[r].reloads + 1
            /\ pc[r] \in {"reload", "rehealth"} => hist[r].reloads = 1
            /\ pc[r] # "failed" => \A p \in hist[r].skipped : modelIdx[r] > p)
    /\ [][\A r \in RunIds : AfterUnhealthy(r)]_vars

\* A model given up after one reload and two probes, the loop at the next one.
C21_Witness ==
    \E r \in RunIds :
        /\ pc[r] = "model"
        /\ modelIdx[r] - 1 \in hist[r].skipped
        /\ hist[r].probes = 2
        /\ hist[r].reloads = 1
        /\ Len(ErrorLogs(r, {"unhealthy"})) > 0

\* C28, as claimed: a service whose process is running and was not signalled
\* stays the entry tracked for its model: neither the cleanup of an earlier
\* stopService nor the exit handler of the model's earlier process removes
\* it, and neither sets the model to stopped while that process runs.
C28_NewerServiceStaysTracked ==
    /\ [](\A p \in ProcIds :
            (procs[p].state = "running" /\ ~procs[p].killed) =>
                services[procs[p].model].proc = p)
    /\ [][\A m \in Models :
            (modelStatus'[m] = "stopped" /\ modelStatus[m] # "stopped") =>
                ~\E p \in ProcIds : /\ procs'[p].model = m
                                    /\ procs'[p].state = "running"
                                    /\ ~procs'[p].killed]_vars

\* C29, as claimed: a startService that threw because the service did not
\* become ready leaves no entry for its process in the map, and no
\* startService returns the tracked entry ("already running") while the
\* model's stored status is error.
C29_FailedStartNotTracked ==
    /\ [](\A c \in CallIds :
            (calls[c].op = "start" /\ calls[c].pc = "threw") =>
                services[calls[c].model].proc # calls[c].proc)
    /\ [][\A c \in CallIds :
            (calls[c].op = "none" /\ calls'[c].op = "start" /\ calls'[c].existing) =>
                modelStatus'[calls'[c].model] # "error"]_vars

(***************************************************************************)
(* Claims about the log, checked under SpecLog.                            *)
(***************************************************************************)
\* C19: with JSON storage the log holds at most LogCap entries, and they are
\* the entries appended last, in the order they were appended.
C19_LogKeepsNewest ==
    useJson =>
        /\ Len(logs) <= LogCap
        /\ Len(logs) = (IF Len(appended) < LogCap THEN Len(appended) ELSE LogCap)
        /\ logs = SubSeq(appended, Len(appended) - Len(logs) + 1, Len(appended))

\* A JSON log that has dropped its oldest entries.
C19_Witness ==
    /\ useJson
    /\ Len(appended) > LogCap
    /\ Len(logs) = LogCap

\* C30, as claimed: with JSON storage no two stored log entries have the same
\* id, after any number of saveLog calls, also once the log has been cut to
\* LogCap entries.
C30_LogIdsDistinct ==
    useJson => Cardinality({logs[k].id : k \in 1..Len(logs)}) = Len(logs)

====
